---- MODULE Spec2Model ----
(***************************************************************************)
(* Model of the BituGuard service (src/app/main.py): the receipts and labs *)
(* tables, the two save handlers and the three read-only aggregators.      *)
(*                                                                         *)
(* Numbers.  The handlers work on floats; the model uses fixed point:      *)
(*   quantities        1/100 MT                                            *)
(*   rates             1/10 rupee per MT                                   *)
(*   loss_rupees       1/100 rupee   (round(x, 2) keeps 1/100 rupee)       *)
(*   leakage_pct       1/100 percent (round(x, 2) keeps 1/100 percent)     *)
(*   lab measurements  whole units                                         *)
(* Strings that the code only compares or copies (grade, tanker_no) are    *)
(* TLA+ strings; supplier names, which the scorecard lower-cases, are      *)
(* sequences of ASCII code points.                                         *)
(***************************************************************************)
EXTENDS Integers, Sequences, FiniteSets, TLC

VARIABLES
    receipts,   \* table "receipts" in id order: Seq of ReceiptDB rows
    labs,       \* table "labs" in id order: Seq of LabDB rows
    args,       \* arguments of a direct call of check_quality (<<>> if none)
    response    \* value returned by the last call

vars == <<receipts, labs, args, response>>

-----------------------------------------------------------------------------
(* Bounds of the model *)

\* rows of both tables together in the service-level specification
MaxRecords == 5
MaxLossReceipts == 2
MaxRiskReceipts == 2
MaxRiskLabs == 3

-----------------------------------------------------------------------------
(* Helpers: Python built-ins used by the handlers *)

Max(a, b) == IF b > a THEN b ELSE a

\* round(num / den) for den > 0, ties to the even neighbour (Python's round).
\* On a float that is not exactly the decimal tie Python rounds to the nearer
\* neighbour of the float; the inputs below produce no such case.
Round(num, den) ==
    LET q == num \div den
        r == num % den
    IN  IF 2 * r < den THEN q
        ELSE IF 2 * r > den THEN q + 1
        ELSE IF q % 2 = 0 THEN q ELSE q + 1

\* str.lower() on ASCII text: 'A'..'Z' (65..90) map to 'a'..'z' (97..122)
LowerChar(c) == IF c >= 65 /\ c <= 90 THEN c + 32 ELSE c

lower(s) == [i \in 1..Len(s) |-> LowerChar(s[i])]

\* no row / nothing returned yet
None == [op |-> "none"]

-----------------------------------------------------------------------------
(* QUALITY CHECK (GRADE BASED) *)

limits ==
    [VG10 |-> [pen |-> <<80, 100>>, soft |-> 40, duct |-> 75],
     VG30 |-> [pen |-> <<50, 70>>,  soft |-> 47, duct |-> 75],
     VG40 |-> [pen |-> <<40, 60>>,  soft |-> 50, duct |-> 50]]

\* variant: the upper penetration limit excluded
check_quality_open(grade, penetration, softening, ductility) ==
    IF grade \notin DOMAIN limits THEN "FAIL"
    ELSE LET g == limits[grade] IN
         IF ~(g.pen[1] <= penetration /\ penetration < g.pen[2]) THEN "FAIL"
         ELSE IF softening < g.soft THEN "FAIL"
         ELSE IF ductility < g.duct THEN "FAIL"
         ELSE "PASS"

check_quality(grade, penetration, softening, ductility) ==
    IF grade \notin DOMAIN limits THEN "FAIL"
    ELSE LET g == limits[grade] IN
         IF ~(g.pen[1] <= penetration /\ penetration <= g.pen[2]) THEN "FAIL"
         ELSE IF softening < g.soft THEN "FAIL"
         ELSE IF ductility < g.duct THEN "FAIL"
         ELSE "PASS"

-----------------------------------------------------------------------------
(* SAVE RECEIPT *)

\* variant: the difference without the clamp at zero
loss_mt_signed(data) == data.quantity - data.received_quantity

loss_mt(data) == Max(0, data.quantity - data.received_quantity)

\* round(loss_mt * bitumen_rate, 2): (1/100 MT) * (1/10 rupee/MT) / 10 = 1/100 rupee
loss_rupees(data) == Round(loss_mt(data) * data.bitumen_rate, 10)

\* round((loss_mt / quantity) * 100, 2) if quantity > 0 else 0
leakage_pct(data) ==
    IF data.quantity > 0
    THEN Round(loss_mt(data) * 10000, data.quantity)
    ELSE 0

ReceiptDB(id, data) ==
    [id                |-> id,
     tanker_no         |-> data.tanker_no,
     grade             |-> data.grade,
     quantity          |-> data.quantity,
     received_quantity |-> data.received_quantity,
     bitumen_rate      |-> data.bitumen_rate,
     supplier          |-> data.supplier,
     receipt_date      |-> data.receipt_date,
     loss_mt           |-> loss_mt(data),
     loss_rupees       |-> loss_rupees(data),
     leakage_pct       |-> leakage_pct(data)]

\* autoincrement primary key; rows are never deleted
NextId(table) == Len(table) + 1

save_receipt(data, cap) ==
    /\ UNCHANGED <<labs, args>>
    /\ IF data.grade = ""
       THEN /\ response' = [op |-> "save_receipt", error |-> "Grade required"]
            /\ UNCHANGED receipts
       ELSE /\ Len(receipts) < cap
            /\ receipts' = Append(receipts, ReceiptDB(NextId(receipts), data))
            /\ response' = [op          |-> "save_receipt",
                            receipt_id  |-> NextId(receipts),
                            loss_rupees |-> loss_rupees(data),
                            leakage_pct |-> leakage_pct(data)]

-----------------------------------------------------------------------------
(* SAVE LAB RESULT *)

\* db.query(ReceiptDB).filter(ReceiptDB.id == receipt_id).first()
ReceiptById(receipt_id) ==
    IF \E i \in 1..Len(receipts) : receipts[i].id = receipt_id
    THEN receipts[CHOOSE i \in 1..Len(receipts) : receipts[i].id = receipt_id]
    ELSE None

LabDB(id, data, verdict) ==
    [id              |-> id,
     receipt_id      |-> data.receipt_id,
     penetration     |-> data.penetration,
     softening_point |-> data.softening_point,
     ductility       |-> data.ductility,
     verdict         |-> verdict]

\* variant: the verdict taken from the first stored receipt's grade
save_lab_first_grade(data, cap) ==
    /\ UNCHANGED <<receipts, args>>
    /\ LET receipt == ReceiptById(data.receipt_id) IN
       IF receipt = None
       THEN /\ response' = [op |-> "save_lab", error |-> "Invalid receipt ID"]
            /\ UNCHANGED labs
       ELSE LET verdict == check_quality(receipts[1].grade, data.penetration,
                                         data.softening_point, data.ductility)
            IN  /\ Len(labs) < cap
                /\ labs' = Append(labs, LabDB(NextId(labs), data, verdict))
                /\ response' = [op |-> "save_lab", ai_verdict |-> verdict]

\* variant: the row added before the receipt is looked up
save_lab_unchecked(data, cap) ==
    /\ UNCHANGED <<receipts, args>>
    /\ LET receipt == ReceiptById(data.receipt_id) IN
       IF receipt = None
       THEN /\ response' = [op |-> "save_lab", error |-> "Invalid receipt ID"]
            /\ Len(labs) < cap
            /\ labs' = Append(labs, LabDB(NextId(labs), data, "FAIL"))
       ELSE LET verdict == check_quality(receipt.grade, data.penetration,
                                         data.softening_point, data.ductility)
            IN  /\ Len(labs) < cap
                /\ labs' = Append(labs, LabDB(NextId(labs), data, verdict))
                /\ response' = [op |-> "save_lab", ai_verdict |-> verdict]

save_lab(data, cap) ==
    /\ UNCHANGED <<receipts, args>>
    /\ LET receipt == ReceiptById(data.receipt_id) IN
       IF receipt = None
       THEN /\ response' = [op |-> "save_lab", error |-> "Invalid receipt ID"]
            /\ UNCHANGED labs
       ELSE LET verdict == check_quality(receipt.grade, data.penetration,
                                         data.softening_point, data.ductility)
            IN  /\ Len(labs) < cap
                /\ labs' = Append(labs, LabDB(NextId(labs), data, verdict))
                /\ response' = [op |-> "save_lab", ai_verdict |-> verdict]

-----------------------------------------------------------------------------
(* Python dict (and defaultdict): entries [key, val] in insertion order *)

HasKey(d, k) == \E i \in 1..Len(d) : d[i].key = k

Get(d, k) == d[CHOOSE i \in 1..Len(d) : d[i].key = k].val

\* d[k] = v: a new key goes last, an existing key keeps its position
Put(d, k, v) ==
    IF HasKey(d, k)
    THEN [i \in 1..Len(d) |-> IF d[i].key = k THEN [key |-> k, val |-> v] ELSE d[i]]
    ELSE Append(d, [key |-> k, val |-> v])

\* defaultdict lookup: a missing key reads as the default
GetDefault(d, k, default) == IF HasKey(d, k) THEN Get(d, k) ELSE default

\* lab.receipt: the relationship on labs.receipt_id
ReceiptOf(lab) == ReceiptById(lab.receipt_id)

-----------------------------------------------------------------------------
(* FRAUD / ALERTS *)

\* f"{r.tanker_no} ({r.grade}) leakage {r.leakage_pct}%": the interpolated values
LeakageAlert(r) ==
    [type |-> "LEAKAGE", message |-> <<r.tanker_no, r.grade, r.leakage_pct>>]

\* f"{supplier} has {count} quality FAILs": the interpolated values
SupplierAlert(supplier, count) ==
    [type |-> "SUPPLIER_QUALITY_RISK", message |-> <<supplier, count>>]

\* variant: the threshold itself excluded
RECURSIVE LeakagePass_above(_)
LeakagePass_above(rs) ==
    IF rs = <<>> THEN <<>>
    ELSE (IF Head(rs).leakage_pct > 300 THEN <<LeakageAlert(Head(rs))>> ELSE <<>>)
         \o LeakagePass_above(Tail(rs))

\* for r in receipts: if r.leakage_pct >= 3: alerts.append(...)
RECURSIVE LeakagePass(_)
LeakagePass(rs) ==
    IF rs = <<>> THEN <<>>
    ELSE (IF Head(rs).leakage_pct >= 300 THEN <<LeakageAlert(Head(rs))>> ELSE <<>>)
         \o LeakagePass(Tail(rs))

\* db.query(LabDB).filter(LabDB.verdict == "FAIL").all()
FailLabs == SelectSeq(labs, LAMBDA lab : lab.verdict = "FAIL")

\* variant: the FAILs keyed by the lower-cased supplier
RECURSIVE CountSupplierFail_lower(_, _)
CountSupplierFail_lower(ls, supplier_fail) ==
    IF ls = <<>> THEN supplier_fail
    ELSE LET supplier == lower(ReceiptOf(Head(ls)).supplier) IN
         CountSupplierFail_lower(Tail(ls),
             Put(supplier_fail, supplier, GetDefault(supplier_fail, supplier, 0) + 1))

\* for lab in labs: supplier_fail[lab.receipt.supplier] += 1
RECURSIVE CountSupplierFail(_, _)
CountSupplierFail(ls, supplier_fail) ==
    IF ls = <<>> THEN supplier_fail
    ELSE LET supplier == ReceiptOf(Head(ls)).supplier IN
         CountSupplierFail(Tail(ls),
             Put(supplier_fail, supplier, GetDefault(supplier_fail, supplier, 0) + 1))

\* for supplier, count in supplier_fail.items(): if count >= 3: alerts.append(...)
RECURSIVE SupplierPass(_)
SupplierPass(items) ==
    IF items = <<>> THEN <<>>
    ELSE (IF Head(items).val >= 3
          THEN <<SupplierAlert(Head(items).key, Head(items).val)>> ELSE <<>>)
         \o SupplierPass(Tail(items))

fraud_alerts ==
    LeakagePass(receipts) \o SupplierPass(CountSupplierFail(FailLabs, <<>>))

FraudAlerts ==
    /\ response' = [op |-> "fraud_alerts", alerts |-> fraud_alerts]
    /\ UNCHANGED <<receipts, labs, args>>

-----------------------------------------------------------------------------
(* SUPPLIER SCORECARD *)

\* variant: the receipts grouped by the supplier as stored
RECURSIVE GroupReceipts_exact(_, _)
GroupReceipts_exact(rs, data) ==
    IF rs = <<>> THEN data
    ELSE LET r   == Head(rs)
             key == r.supplier
             s   == GetDefault(data, key,
                        [supplier |-> r.supplier, tankers |-> 0,
                         total_leakage |-> 0, quality_fails |-> 0])
         IN  GroupReceipts_exact(Tail(rs),
                 Put(data, key, [s EXCEPT !.tankers = @ + 1,
                                          !.total_leakage = @ + r.leakage_pct]))

\* first loop: group the receipts by supplier.lower()
RECURSIVE GroupReceipts(_, _)
GroupReceipts(rs, data) ==
    IF rs = <<>> THEN data
    ELSE LET r   == Head(rs)
             key == lower(r.supplier)
             s   == GetDefault(data, key,
                        [supplier |-> r.supplier, tankers |-> 0,
                         total_leakage |-> 0, quality_fails |-> 0])
         IN  GroupReceipts(Tail(rs),
                 Put(data, key, [s EXCEPT !.tankers = @ + 1,
                                          !.total_leakage = @ + r.leakage_pct]))

\* variant: the FAIL looked up under the supplier as stored
RECURSIVE CountQualityFails_exact(_, _)
CountQualityFails_exact(ls, data) ==
    IF ls = <<>> THEN data
    ELSE LET lab == Head(ls) IN
         IF lab.verdict = "FAIL"
         THEN LET key == ReceiptOf(lab).supplier IN
              IF HasKey(data, key)
              THEN CountQualityFails_exact(Tail(ls),
                       Put(data, key, [Get(data, key) EXCEPT !.quality_fails = @ + 1]))
              ELSE CountQualityFails_exact(Tail(ls), data)
         ELSE CountQualityFails_exact(Tail(ls), data)

\* second loop: count the FAIL labs of the suppliers already in data
RECURSIVE CountQualityFails(_, _)
CountQualityFails(ls, data) ==
    IF ls = <<>> THEN data
    ELSE LET lab == Head(ls) IN
         IF lab.verdict = "FAIL"
         THEN LET key == lower(ReceiptOf(lab).supplier) IN
              IF HasKey(data, key)
              THEN CountQualityFails(Tail(ls),
                       Put(data, key, [Get(data, key) EXCEPT !.quality_fails = @ + 1]))
              ELSE CountQualityFails(Tail(ls), data)
         ELSE CountQualityFails(Tail(ls), data)

\* round(total_leakage / tankers, 2) if tankers > 0 else 0
avg_leak(s) == IF s.tankers > 0 THEN Round(s.total_leakage, s.tankers) ELSE 0

\* variant: the leakage tiers one step higher
risk_late(s) ==
    IF s.quality_fails >= 3 \/ avg_leak(s) > 500 THEN "HIGH"
    ELSE IF s.quality_fails >= 1 \/ avg_leak(s) > 300 THEN "MEDIUM"
    ELSE "LOW"

risk(s) ==
    IF s.quality_fails >= 3 \/ avg_leak(s) >= 500 THEN "HIGH"
    ELSE IF s.quality_fails >= 1 \/ avg_leak(s) >= 300 THEN "MEDIUM"
    ELSE "LOW"

ScoreRow(s) ==
    [supplier        |-> s.supplier,
     tankers         |-> s.tankers,
     avg_leakage_pct |-> avg_leak(s),
     quality_fails   |-> s.quality_fails,
     risk            |-> risk(s)]

\* for s in data.values(): result.append({...})
supplier_scorecard ==
    LET data == CountQualityFails(labs, GroupReceipts(receipts, <<>>))
    IN  [i \in 1..Len(data) |-> ScoreRow(data[i].val)]

SupplierScorecard ==
    /\ response' = [op |-> "supplier_scorecard", result |-> supplier_scorecard]
    /\ UNCHANGED <<receipts, labs, args>>

-----------------------------------------------------------------------------
(* MONTHLY ANALYTICS *)

\* variant: the month compared without the year
InMonth_any_year(r, year, month) == r.receipt_date.month = month

\* r.receipt_date.year == year and r.receipt_date.month == month
InMonth(r, year, month) ==
    r.receipt_date.year = year /\ r.receipt_date.month = month

\* total_loss += r.loss_rupees; supplier_loss[r.supplier] += r.loss_rupees
RECURSIVE SumMonth(_, _, _, _)
SumMonth(rs, year, month, acc) ==
    IF rs = <<>> THEN acc
    ELSE LET r == Head(rs) IN
         IF InMonth(r, year, month)
         THEN SumMonth(Tail(rs), year, month,
                  [total_loss    |-> acc.total_loss + r.loss_rupees,
                   supplier_loss |-> Put(acc.supplier_loss, r.supplier,
                       GetDefault(acc.supplier_loss, r.supplier, 0) + r.loss_rupees)])
         ELSE SumMonth(Tail(rs), year, month, acc)

monthly_loss(year, month) ==
    LET acc == SumMonth(receipts, year, month,
                        [total_loss |-> 0, supplier_loss |-> <<>>])
    IN  [year              |-> year,
         month             |-> month,
         total_loss_rupees |-> acc.total_loss,
         supplier_loss     |-> acc.supplier_loss]

MonthlyLoss(year, month) ==
    /\ response' = [op |-> "monthly_loss", body |-> monthly_loss(year, month)]
    /\ UNCHANGED <<receipts, labs, args>>

-----------------------------------------------------------------------------
(* Requests *)

\* schema Receipt
Receipt(tanker_no, grade, quantity, received_quantity, bitumen_rate, supplier, receipt_date) ==
    [tanker_no         |-> tanker_no,
     grade             |-> grade,
     quantity          |-> quantity,
     received_quantity |-> received_quantity,
     bitumen_rate      |-> bitumen_rate,
     supplier          |-> supplier,
     receipt_date      |-> receipt_date]

\* schema Lab
Lab(receipt_id, penetration, softening_point, ductility) ==
    [receipt_id      |-> receipt_id,
     penetration     |-> penetration,
     softening_point |-> softening_point,
     ductility       |-> ductility]

Date(year, month, day) == [year |-> year, month |-> month, day |-> day]

Acme == <<65, 99, 109, 101>>        \* "Acme"
acme == <<97, 99, 109, 101>>        \* "acme"
Beta == <<66, 101, 116, 97>>        \* "Beta"

Jan15 == Date(2024, 1, 15)

\* 55000 rupees per MT, the default rate of the schema
Rate == 550000

\* Receipts of the service-level specification: two spellings of one supplier
\* and a second supplier, two grades, leakage of 3.00, 2.99 and 5.00 percent,
\* and a request with a blank grade.
ReceiptInputs ==
    { Receipt("TN01", "VG30", 10000, 9700, Rate, Acme, Jan15),
      Receipt("TN02", "VG30", 10000, 9701, Rate, acme, Jan15),
      Receipt("TN03", "VG10", 10000, 9500, Rate, Beta, Jan15),
      Receipt("TN04", "",     10000, 9700, Rate, Acme, Jan15) }

\* (60, 50, 80) passes VG30 and fails VG10; (90, 50, 80) passes VG10 and fails VG30
Measurements == { <<60, 50, 80>>, <<90, 50, 80>> }

\* receipt ids up to the most the store can hold beside one lab report
LabInputs ==
    { Lab(id, m[1], m[2], m[3]) : id \in 1..(MaxRecords - 1), m \in Measurements }

\* the month of every receipt of ReceiptInputs
Months == { <<2024, 1>> }

-----------------------------------------------------------------------------
(* The service: any sequence of calls of the five handlers *)

Init ==
    /\ receipts = <<>>
    /\ labs = <<>>
    /\ args = <<>>
    /\ response = None

SaveReceipt == \E data \in ReceiptInputs : save_receipt(data, MaxRecords - Len(labs))

SaveLab == \E data \in LabInputs : save_lab(data, MaxRecords - Len(receipts))

Monthly == \E ym \in Months : MonthlyLoss(ym[1], ym[2])

Next ==
    \/ SaveReceipt
    \/ SaveLab
    \/ FraudAlerts
    \/ SupplierScorecard
    \/ Monthly

Spec == Init /\ [][Next]_vars

-----------------------------------------------------------------------------
(* check_quality called directly on a grid of arguments around every limit *)

Grades == { "VG10", "VG30", "VG40", "VG20", "vg30", "" }

Penetrations == { 39, 40, 49, 50, 60, 61, 70, 71, 79, 80, 100, 101 }

Softenings == { 39, 40, 46, 47, 49, 50 }

Ductilities == { 49, 50, 74, 75 }

QualityInputs ==
    [grade : Grades, penetration : Penetrations,
     softening : Softenings, ductility : Ductilities]

InitQuality ==
    /\ receipts = <<>>
    /\ labs = <<>>
    /\ args \in QualityInputs
    /\ response = None

CheckQuality ==
    /\ response = None
    /\ response' = [op      |-> "check_quality",
                    verdict |-> check_quality(args.grade, args.penetration,
                                              args.softening, args.ductility)]
    /\ UNCHANGED <<receipts, labs, args>>

SpecQuality == InitQuality /\ [][CheckQuality]_vars

-----------------------------------------------------------------------------
(* save_receipt on invoiced and received quantities of every sign and order *)

\* (invoiced, received): short by 3.00, 2.99, 5.00, 0.33 and 3.125 percent,
\* equal, over-delivered, and invoiced quantities of zero and below
QuantityPairs ==
    { <<10000, 9700>>, <<10000, 9701>>, <<10000, 9500>>, <<300, 299>>,
      <<3200, 3100>>, <<10000, 10000>>, <<10000, 11000>>,
      <<0, 0>>, <<0, -500>>, <<-100, -500>>, <<-100, 0>> }

\* 55000 and 55000.3 rupees per MT
Rates == { Rate, 550003 }

LossInputs ==
    { Receipt("TN01", g, qr[1], qr[2], rate, Acme, Jan15) :
        g \in {"VG30", ""}, qr \in QuantityPairs, rate \in Rates }

SaveLossReceipt == \E data \in LossInputs : save_receipt(data, MaxLossReceipts)

SpecLoss == Init /\ [][SaveLossReceipt]_vars

-----------------------------------------------------------------------------
(* monthly_loss on receipts dated around a month's end *)

Jan31 == Date(2024, 1, 31)
Feb01 == Date(2024, 2, 1)
NextJan31 == Date(2025, 1, 31)

MonthlyInputs ==
    { Receipt("TN01", "VG30", 10000, r, Rate, s, d) :
        r \in {9700, 9500}, s \in {Acme, acme, Beta}, d \in {Jan31, Feb01, NextJan31} }

\* February 2025 has no receipt
QueriedMonths == { <<2024, 1>>, <<2024, 2>>, <<2025, 1>>, <<2025, 2>> }

SaveMonthlyReceipt == \E data \in MonthlyInputs : save_receipt(data, MaxLossReceipts)

QueryMonthly == \E ym \in QueriedMonths : MonthlyLoss(ym[1], ym[2])

SpecMonthly == Init /\ [][SaveMonthlyReceipt \/ QueryMonthly]_vars

-----------------------------------------------------------------------------
(* supplier_scorecard on one supplier, leakage and FAIL counts around the tiers *)

\* leakage of 0, 2.99, 3.00, 4.99 and 5.00 percent
RiskInputs ==
    { Receipt("TN01", "VG30", 10000, r, Rate, Acme, Jan15) :
        r \in {10000, 9701, 9700, 9501, 9500} }

RiskLabInputs == { Lab(1, m[1], m[2], m[3]) : m \in Measurements }

SaveRiskReceipt == \E data \in RiskInputs : save_receipt(data, MaxRiskReceipts)

SaveRiskLab == \E data \in RiskLabInputs : save_lab(data, MaxRiskLabs)

SpecRisk == Init /\ [][SaveRiskReceipt \/ SaveRiskLab \/ SupplierScorecard]_vars

-----------------------------------------------------------------------------
(* Claims *)

C1_Accepts(a) ==
    \/ a.grade = "VG10" /\ 80 <= a.penetration /\ a.penetration <= 100
                        /\ a.softening >= 40 /\ a.ductility >= 75
    \/ a.grade = "VG30" /\ 50 <= a.penetration /\ a.penetration <= 70
                        /\ a.softening >= 47 /\ a.ductility >= 75
    \/ a.grade = "VG40" /\ 40 <= a.penetration /\ a.penetration <= 60
                        /\ a.softening >= 50 /\ a.ductility >= 50

\* C1: check_quality returns PASS exactly when the grade is VG10, VG30 or VG40,
\* the penetration is inside that grade's inclusive range and softening and
\* ductility reach that grade's minimum; otherwise FAIL, and never anything else.
C1_PassIffWithinLimits ==
    response.op = "check_quality" =>
        /\ response.verdict \in {"PASS", "FAIL"}
        /\ response.verdict = "PASS" <=> C1_Accepts(args)

\* a PASS with every measurement on its limit
C1_Witness ==
    /\ response.op = "check_quality"
    /\ response.verdict = "PASS"
    /\ args = [grade |-> "VG10", penetration |-> 100, softening |-> 40, ductility |-> 75]

\* C2: every stored receipt has loss_mt = max(0, invoiced - received) >= 0; with
\* received >= invoiced the stored loss_mt, loss_rupees and leakage_pct are 0,
\* and leakage_pct is 0 whenever invoiced <= 0.
C2_LossClamped ==
    \A i \in 1..Len(receipts) :
        LET r == receipts[i]
            d == r.quantity - r.received_quantity
        IN  /\ r.loss_mt = (IF d > 0 THEN d ELSE 0)
            /\ r.loss_mt >= 0
            /\ r.received_quantity >= r.quantity =>
                   r.loss_mt = 0 /\ r.loss_rupees = 0 /\ r.leakage_pct = 0
            /\ r.quantity <= 0 => r.leakage_pct = 0

\* an over-delivery stored beside a short delivery on a zero invoice
C2_Witness ==
    /\ \E i \in 1..Len(receipts) :
           receipts[i].received_quantity > receipts[i].quantity /\ receipts[i].loss_mt = 0
    /\ \E i \in 1..Len(receipts) :
           receipts[i].quantity <= 0 /\ receipts[i].loss_mt > 0

C3_ParentRows(lab) == { i \in 1..Len(receipts) : receipts[i].id = lab.receipt_id }

C3_VerdictOfParent ==
    \A j \in 1..Len(labs) :
        /\ Cardinality(C3_ParentRows(labs[j])) = 1
        /\ \A i \in C3_ParentRows(labs[j]) :
               labs[j].verdict = check_quality(receipts[i].grade, labs[j].penetration,
                                               labs[j].softening_point, labs[j].ductility)

C3_RowsKept ==
    /\ Len(labs') >= Len(labs)
    /\ \A j \in 1..Len(labs) : labs'[j] = labs[j]
    /\ Len(receipts') >= Len(receipts)
    /\ \A i \in 1..Len(receipts) : receipts'[i] = receipts[i]

\* C3: every stored lab report references exactly one stored receipt and its
\* verdict is check_quality of that receipt's grade and the report's own three
\* measurements; no later save or aggregator call changes a stored report.
C3_VerdictStoredOnce == []C3_VerdictOfParent /\ [][C3_RowsKept]_vars

\* the same measurements stored with opposite verdicts under receipts of two
\* grades, seen after an aggregator has run
C3_Witness ==
    /\ response.op \in {"fraud_alerts", "supplier_scorecard", "monthly_loss"}
    /\ \E j, k \in 1..Len(labs) :
           /\ labs[j].receipt_id # labs[k].receipt_id
           /\ labs[j].penetration = labs[k].penetration
           /\ labs[j].verdict = "PASS"
           /\ labs[k].verdict = "FAIL"

C4_IsError(r) == "error" \in DOMAIN r

\* C4: save_lab with a receipt id that matches no stored receipt returns an
\* error and changes neither table; save_receipt with an empty grade returns an
\* error and changes neither table.
C4_RejectedSaveKeepsStore ==
    [][ /\ \A data \in LabInputs :
               (/\ \A i \in 1..Len(receipts) : receipts[i].id # data.receipt_id
                /\ save_lab(data, MaxRecords - Len(receipts)))
               => (C4_IsError(response') /\ UNCHANGED <<receipts, labs>>)
        /\ \A data \in ReceiptInputs :
               (data.grade = "" /\ save_receipt(data, MaxRecords - Len(labs)))
               => (C4_IsError(response') /\ UNCHANGED <<receipts, labs>>)
        /\ C4_IsError(response') => UNCHANGED <<receipts, labs>> ]_vars

\* a lab report refused for an unknown receipt id while both tables hold rows
C4_Witness ==
    /\ response = [op |-> "save_lab", error |-> "Invalid receipt ID"]
    /\ Len(receipts) >= 1
    /\ Len(labs) >= 1

\* positions of the alerts of a type in a list of alerts
AlertsAt(alerts, type) == { n \in 1..Len(alerts) : alerts[n].type = type }

C5_Leaking == { i \in 1..Len(receipts) : receipts[i].leakage_pct >= 300 }

\* C5: fraud_alerts returns one LEAKAGE alert per stored receipt with
\* leakage_pct >= 3 and none for the others, in receipt order, and every
\* LEAKAGE alert stands before every SUPPLIER_QUALITY_RISK alert.
C5_LeakageAlertsFirstInOrder ==
    LET alerts  == fraud_alerts
        leaking == C5_Leaking
    IN  /\ Cardinality(AlertsAt(alerts, "LEAKAGE")) = Cardinality(leaking)
        /\ \A n \in AlertsAt(alerts, "LEAKAGE") : n <= Cardinality(leaking)
        /\ \A i \in leaking :
               LET n == Cardinality({ k \in leaking : k <= i }) IN
               alerts[n].message =
                   <<receipts[i].tanker_no, receipts[i].grade, receipts[i].leakage_pct>>
        /\ \A n \in AlertsAt(alerts, "SUPPLIER_QUALITY_RISK") : n > Cardinality(leaking)

\* receipts leaking 3.00 and 2.99 percent, one LEAKAGE alert, then a supplier alert
C5_Witness ==
    /\ \E i \in 1..Len(receipts) : receipts[i].leakage_pct = 300
    /\ \E i \in 1..Len(receipts) : receipts[i].leakage_pct = 299
    /\ response.op = "fraud_alerts"
    /\ Len(response.alerts) = 2
    /\ response.alerts[1].type = "LEAKAGE"
    /\ response.alerts[2].type = "SUPPLIER_QUALITY_RISK"

\* the supplier strings of the stored receipts, as stored
StoredSuppliers == { receipts[i].supplier : i \in 1..Len(receipts) }

\* the FAIL reports whose receipt carries exactly the supplier string s
C6_Fails(s) ==
    { j \in 1..Len(labs) :
        /\ labs[j].verdict = "FAIL"
        /\ \E i \in 1..Len(receipts) :
               receipts[i].id = labs[j].receipt_id /\ receipts[i].supplier = s }

\* C6: fraud_alerts returns one SUPPLIER_QUALITY_RISK alert, carrying the count,
\* for each supplier string with at least 3 FAIL reports under exactly that
\* string, and none for a string with fewer; spellings are counted apart.
C6_SupplierAlertPerExactName ==
    LET alerts == fraud_alerts
        risky  == AlertsAt(alerts, "SUPPLIER_QUALITY_RISK")
    IN  /\ \A s \in StoredSuppliers :
               LET mine  == { n \in risky : alerts[n].message[1] = s }
                   fails == Cardinality(C6_Fails(s))
               IN  IF fails >= 3
                   THEN /\ Cardinality(mine) = 1
                        /\ \A n \in mine : alerts[n].message[2] = fails
                   ELSE mine = {}
        /\ \A n \in risky : alerts[n].message[1] \in StoredSuppliers

\* three FAILs split 2 and 1 between "Acme" and "acme": no supplier alert
C6_Witness ==
    /\ Cardinality(C6_Fails(Acme)) = 2
    /\ Cardinality(C6_Fails(acme)) = 1
    /\ response.op = "fraud_alerts"
    /\ AlertsAt(response.alerts, "SUPPLIER_QUALITY_RISK") = {}

C7_Tier(quality_fails, avg_leakage_pct) ==
    IF quality_fails >= 3 \/ avg_leakage_pct >= 500 THEN "HIGH"
    ELSE IF quality_fails >= 1 \/ avg_leakage_pct >= 300 THEN "MEDIUM"
    ELSE "LOW"

\* C7: every scorecard row has risk HIGH if quality_fails >= 3 or
\* avg_leakage_pct >= 5, else MEDIUM if quality_fails >= 1 or
\* avg_leakage_pct >= 3, else LOW; (3, 0) is HIGH, (0, 2.99) LOW, (0, 3.00) MEDIUM.
C7_RiskTierOfRow ==
    LET rows == supplier_scorecard IN
    \A n \in 1..Len(rows) :
        LET row == rows[n] IN
        /\ row.risk = C7_Tier(row.quality_fails, row.avg_leakage_pct)
        /\ (row.quality_fails = 3 /\ row.avg_leakage_pct = 0) => row.risk = "HIGH"
        /\ (row.quality_fails = 0 /\ row.avg_leakage_pct = 299) => row.risk = "LOW"
        /\ (row.quality_fails = 0 /\ row.avg_leakage_pct = 300) => row.risk = "MEDIUM"

\* a returned row with three FAILs and no leakage
C7_Witness ==
    /\ response.op = "supplier_scorecard"
    /\ Len(response.result) = 1
    /\ response.result[1].quality_fails = 3
    /\ response.result[1].avg_leakage_pct = 0
    /\ response.result[1].risk = "HIGH"

\* also reached: a returned row with no FAIL and 2.99 percent, LOW
C7_WitnessLow ==
    /\ response.op = "supplier_scorecard"
    /\ Len(response.result) = 1
    /\ response.result[1].quality_fails = 0
    /\ response.result[1].avg_leakage_pct = 299
    /\ response.result[1].risk = "LOW"

\* also reached: a returned row with no FAIL and 3.00 percent, MEDIUM
C7_WitnessMedium ==
    /\ response.op = "supplier_scorecard"
    /\ Len(response.result) = 1
    /\ response.result[1].quality_fails = 0
    /\ response.result[1].avg_leakage_pct = 300
    /\ response.result[1].risk = "MEDIUM"

RECURSIVE SumOf(_, _)
\* the sum of f over the finite set S
SumOf(f, S) ==
    IF S = {} THEN 0
    ELSE LET x == CHOOSE x \in S : TRUE IN f[x] + SumOf(f, S \ {x})

C8_Matching(year, month) ==
    { i \in 1..Len(receipts) :
        receipts[i].receipt_date.year = year /\ receipts[i].receipt_date.month = month }

C8_Loss == [i \in 1..Len(receipts) |-> receipts[i].loss_rupees]

C8_MonthCorrect(year, month) ==
    LET res  == monthly_loss(year, month)
        M    == C8_Matching(year, month)
        keys == { res.supplier_loss[n].key : n \in 1..Len(res.supplier_loss) }
        vals == [n \in 1..Len(res.supplier_loss) |-> res.supplier_loss[n].val]
    IN  /\ res.total_loss_rupees = SumOf(C8_Loss, M)
        /\ keys = { receipts[i].supplier : i \in M }
        /\ Cardinality(keys) = Len(res.supplier_loss)
        /\ \A n \in 1..Len(res.supplier_loss) :
               vals[n] = SumOf(C8_Loss,
                   { i \in M : receipts[i].supplier = res.supplier_loss[n].key })
        /\ SumOf(vals, 1..Len(res.supplier_loss)) = res.total_loss_rupees
        /\ M = {} => (res.total_loss_rupees = 0 /\ res.supplier_loss = <<>>)

\* C8: monthly_loss(year, month) totals the stored loss of exactly the receipts
\* dated in that year and month, maps each exact-case supplier of those
\* receipts to its share, the shares add up to the total, and with no such
\* receipt the total is 0 and the mapping empty.
C8_MonthlyLossExact ==
    \A ym \in QueriedMonths : C8_MonthCorrect(ym[1], ym[2])

\* January 2024 returned with a loss while a receipt of 1 February 2024 and one
\* of 31 January are stored
C8_Witness ==
    /\ response.op = "monthly_loss"
    /\ response.body.year = 2024 /\ response.body.month = 1
    /\ response.body.total_loss_rupees > 0
    /\ \E i \in 1..Len(receipts) : receipts[i].receipt_date = Jan31
    /\ \E i \in 1..Len(receipts) : receipts[i].receipt_date = Feb01

\* the receipts whose supplier lower-cases to key
C9_Group(key) == { i \in 1..Len(receipts) : lower(receipts[i].supplier) = key }

\* the FAIL reports whose receipt's supplier lower-cases to key
C9_Fails(key) ==
    { j \in 1..Len(labs) :
        /\ labs[j].verdict = "FAIL"
        /\ \E i \in C9_Group(key) : receipts[i].id = labs[j].receipt_id }

C9_Keys == { lower(receipts[i].supplier) : i \in 1..Len(receipts) }

\* C9: supplier_scorecard returns one row per distinct lower-cased supplier of
\* the stored receipts, showing the spelling of the group's first receipt; its
\* tankers is the number of receipts of the group (summing to the number of
\* receipts) and its quality_fails the number of FAIL reports of the group.
C9_OneRowPerLoweredSupplier ==
    LET rows == supplier_scorecard
        keys == C9_Keys
    IN  /\ Len(rows) = Cardinality(keys)
        /\ \A key \in keys :
               LET mine  == { n \in 1..Len(rows) : lower(rows[n].supplier) = key }
                   group == C9_Group(key)
                   first == CHOOSE i \in group : \A k \in group : i <= k
               IN  /\ Cardinality(mine) = 1
                   /\ \A n \in mine :
                          /\ rows[n].supplier = receipts[first].supplier
                          /\ rows[n].tankers = Cardinality(group)
                          /\ rows[n].quality_fails = Cardinality(C9_Fails(key))
        /\ SumOf([n \in 1..Len(rows) |-> rows[n].tankers], 1..Len(rows)) = Len(receipts)

\* "acme" stored before "Acme", a FAIL under each: one row "acme" with 2 FAILs
C9_Witness ==
    /\ Len(receipts) = 2
    /\ receipts[1].supplier = acme
    /\ receipts[2].supplier = Acme
    /\ C6_Fails(acme) # {}
    /\ C6_Fails(Acme) # {}
    /\ response.op = "supplier_scorecard"
    /\ Len(response.result) = 1
    /\ response.result[1].supplier = acme
    /\ response.result[1].tankers = 2
    /\ response.result[1].quality_fails >= 2

\* C10: every SUPPLIER_QUALITY_RISK alert for a supplier string S has a
\* scorecard row for lower(S) with quality_fails >= 3 and risk HIGH, and the
\* quality_fails of all rows add up to the number of FAIL reports.
C10_AlertImpliesHighRow ==
    LET alerts == fraud_alerts
        rows   == supplier_scorecard
    IN  /\ \A n \in AlertsAt(alerts, "SUPPLIER_QUALITY_RISK") :
               \E m \in 1..Len(rows) :
                   /\ lower(rows[m].supplier) = lower(alerts[n].message[1])
                   /\ rows[m].quality_fails >= 3
                   /\ rows[m].risk = "HIGH"
        /\ SumOf([m \in 1..Len(rows) |-> rows[m].quality_fails], 1..Len(rows))
             = Cardinality({ j \in 1..Len(labs) : labs[j].verdict = "FAIL" })

\* an alert for "Acme", whose receipts leak 3.00 percent, and its HIGH row
C10_Witness ==
    LET alerts == fraud_alerts
        rows   == supplier_scorecard
    IN  /\ \E n \in AlertsAt(alerts, "SUPPLIER_QUALITY_RISK") :
               alerts[n].message = <<Acme, 3>>
        /\ \E m \in 1..Len(rows) :
               /\ rows[m].supplier = Acme
               /\ rows[m].avg_leakage_pct < 500
               /\ rows[m].risk = "HIGH"

====
